---------------------------- MODULE Spec2Model ----------------------------
(***************************************************************************)
(* A model of ymgyt/atcoder-lib: the union-find (collections/unionfind.rs),*)
(* the weighted digraph with Floyd-Warshall and Dijkstra (graph/dag.rs),   *)
(* the segment tree (collections/segment_tree), the token scanner          *)
(* (contest.rs) and the prime factorizer (calc/prime.rs).  The components  *)
(* share no data, so each has a specification of its own over its own     *)
(* variables; the variables of the other components stay at their initial *)
(* values.                                                                 *)
(***************************************************************************)
EXTENDS Integers, Sequences, FiniteSets, Bags, TLC

VARIABLES
    parent,     \* UnionFind.parent : Vec<Option<usize>>, as a function on 0..n-1
    size,       \* UnionFind.size   : Vec<usize>
    conn,       \* history: the partition the union calls made so far describe
    ufcall,     \* the last UnionFind call with its arguments and result
    edges,      \* Dag.edges : Vec<Vec<Edge>>, a function on 0..size-1 to sequences
    dcall,      \* the last Dag call with its arguments and result
    dj,         \* djkstra: TRUE while a call (the one dcall names) is running
    dist,       \* djkstra: the local dist vector of the running call
    queue,      \* djkstra: the local BinaryHeap of the running call
    segn,       \* SegmentTree: the logical size
    tree,       \* SegmentTree: the buffer, a function on 0..2*capacity-1
    leaves,     \* history: the value last written to each leaf, or identity
    segcall,    \* the last SegmentTree call with its arguments and result
    input,      \* Scanner: the bytes of the underlying reader
    rpos,       \* Scanner.reader: how many bytes of input have been read
    buf,        \* Scanner.buf : Vec<u8>
    pos,        \* Scanner.pos, counted from 0 as in the code
    out,        \* history: the results of the try_scan calls made so far
    sieve,      \* PrimeFactorizer.buf : Box<[usize]>, a function on 0..upper_bound
    factors,    \* the caller's Vec<usize> that factorize appends to
    pcall       \* the last PrimeFactorizer call with its argument

ufvars == <<parent, size, conn, ufcall>>
dagvars == <<edges, dcall, dj, dist, queue>>
segvars == <<segn, tree, leaves, segcall>>
scanvars == <<input, rpos, buf, pos, out>>
primevars == <<sieve, factors, pcall>>

vars == <<ufvars, dagvars, segvars, scanvars, primevars>>

(***************************************************************************)
(* Option<T>: None is the empty sequence, Some(v) the one-element one.     *)
(***************************************************************************)
None == <<>>
Some(v) == <<v>>
Unwrap(o) == o[1]

(***************************************************************************)
(* Bounds of the model.                                                    *)
(***************************************************************************)
MaxN == 4            \* UnionFind::new(n) is explored for n in 1..MaxN
MaxV == 3            \* Dag::new(size) is explored for size in 1..MaxV
MaxEdges == 3        \* add_edge is explored while fewer edges are stored
MaxCost == 2         \* edge costs are drawn from 0..MaxCost
MaxSize == 4         \* SegmentTree::new(logical_size) for logical_size in 0..MaxSize
MaxVal == 2          \* the values written to a segment tree are <<1>>..<<MaxVal>>
MaxInput == 5        \* the scanner reads inputs of up to MaxInput bytes
MaxCalls == 4        \* try_scan is called up to MaxCalls times on an input
MaxUpper == 12       \* PrimeFactorizer::prepare(upper_bound) for upper_bound in 0..MaxUpper
MaxFactors == 3      \* factorize is called while factors holds fewer elements

----------------------------------------------------------------------------
(***************************************************************************)
(* collections/unionfind.rs                                                *)
(***************************************************************************)
Elems == DOMAIN parent

NoCall == [op |-> "new", x |-> 0, y |-> 0, ret |-> None]

\* UnionFind::new(n): n singleton sets, no parent, every size 1.
NewUF(n) ==
    /\ parent = [i \in 0..(n - 1) |-> None]
    /\ size = [i \in 0..(n - 1) |-> 1]
    /\ conn = {{i} : i \in 0..(n - 1)}
    /\ ufcall = NoCall

\* Dag::new(size): an empty list per vertex; no djkstra call is running.
NewDag(n) ==
    /\ edges = [v \in 0..(n - 1) |-> <<>>]
    /\ dcall = [op |-> "new", from |-> 0, to |-> 0, ret |-> None]
    /\ dj = FALSE
    /\ dist = <<>>
    /\ queue = {}

\* The operator and identity a segment tree is built with: concatenation
\* of sequences, which is associative and not commutative, and <<>>.
identity == <<>>
combine(a, b) == a \o b
Vals == {identity} \cup {<<v>> : v \in 1..MaxVal}

\* usize::next_power_of_two
RECURSIVE pow2From(_, _)
pow2From(c, n) == IF c >= n THEN c ELSE pow2From(2 * c, n)
next_power_of_two(n) == pow2From(1, n)

\* from_vec, the bottom-up pass: internal nodes from k down to 1.
RECURSIVE build(_, _)
build(nodes, k) ==
    IF k < 1 THEN nodes
    ELSE build([nodes EXCEPT ![k] = combine(nodes[2 * k], nodes[2 * k + 1])], k - 1)

\* SegmentTree::from_vec(values, identity, combine): the leaves hold the
\* values, then identity up to the capacity.
from_vec(values) ==
    LET cap == next_power_of_two(Len(values))
        seeded == [k \in 0..(2 * cap - 1) |->
                      IF k >= cap /\ k - cap < Len(values)
                      THEN values[k - cap + 1] ELSE identity]
    IN  build(seeded, cap - 1)

\* SegmentTree::new(logical_size, identity, combine): every leaf identity,
\* every internal node combine(identity, identity).
newTree(n) ==
    LET cap == next_power_of_two(n)
    IN  [k \in 0..(2 * cap - 1) |->
            IF k >= 1 /\ k < cap THEN combine(identity, identity) ELSE identity]

NewSeg(n) ==
    /\ segn = n
    /\ tree = newTree(n)
    /\ leaves = [i \in 0..(next_power_of_two(n) - 1) |-> identity]
    /\ segcall = [op |-> "new", lo |-> 0, hi |-> 0, ret |-> None]

FromVec(values) ==
    /\ segn = Len(values)
    /\ tree = from_vec(values)
    /\ leaves = [i \in 0..(next_power_of_two(Len(values)) - 1) |->
                    IF i < Len(values) THEN values[i + 1] ELSE identity]
    /\ segcall = [op |-> "from_vec", lo |-> 0, hi |-> 0, ret |-> None]

\* Scanner::new(reader): an empty buffer, pos 0, nothing read yet.
NewScanner(bytes) ==
    /\ input = bytes
    /\ rpos = 0
    /\ buf = <<>>
    /\ pos = 0
    /\ out = <<>>

\* An inner loop without the test of buf[n * k]: the last n wins.
RECURSIVE prepareInnerNoTest(_, _, _, _)
prepareInnerNoTest(b, ub, n, k) ==
    IF n * k > ub THEN b
    ELSE prepareInnerNoTest([b EXCEPT ![n * k] = n], ub, n, k + 1)

\* prepare, lines 10-18: for k in 1.. while n * k <= upper_bound, buf[n * k]
\* becomes n unless it is already set.
RECURSIVE prepareInner(_, _, _, _)
prepareInner(b, ub, n, k) ==
    IF n * k > ub THEN b
    ELSE IF b[n * k] # 0 THEN prepareInner(b, ub, n, k + 1)
         ELSE prepareInner([b EXCEPT ![n * k] = n], ub, n, k + 1)

\* One pass of `for n in 2..=upper_bound`.
prepareStep(b, ub, n) == prepareInner(b, ub, n, 1)

\* prepare, lines 9-19: for n in 2..=upper_bound.
RECURSIVE prepareOuter(_, _, _)
prepareOuter(b, ub, n) ==
    IF n > ub THEN b ELSE prepareOuter(prepareStep(b, ub, n), ub, n + 1)

\* PrimeFactorizer::prepare(upper_bound)
prepare(ub) == prepareOuter([m \in 0..ub |-> 0], ub, 2)

NewPrime(ub) ==
    /\ sieve = prepare(ub)
    /\ factors = <<>>
    /\ pcall = [op |-> "prepare", n |-> ub]

InitUF ==
    /\ \E n \in 1..MaxN : NewUF(n)
    /\ NewDag(1)
    /\ NewSeg(1)
    /\ NewScanner(<<>>)
    /\ NewPrime(0)

\* UnionFind::root: follow parent until an element without one.
RECURSIVE rootOf(_, _)
rootOf(p, curr) ==
    IF p[curr] = None THEN curr ELSE rootOf(p, Unwrap(p[curr]))

root(x) == rootOf(parent, x)

\* UnionFind::equiv
equiv(x, y) == root(x) = root(y)

\* UnionFind::size(x): the entry of the size vector at x.
sizeOf(sz, x) == sz[x]

\* A loop that writes the parent met to parent[curr], where it already is,
\* and not to parent[x].
RECURSIVE rwoLoopWritesCurr(_, _, _)
rwoLoopWritesCurr(p, x, curr) ==
    IF p[curr] = None
    THEN [parent |-> p, ret |-> curr]
    ELSE rwoLoopWritesCurr([p EXCEPT ![curr] = p[curr]], x, Unwrap(p[curr]))

\* The loop of root_with_optimize: each parent met on the way is written to
\* parent[x], then followed.
RECURSIVE rwoLoop(_, _, _)
rwoLoop(p, x, curr) ==
    IF p[curr] = None
    THEN [parent |-> p, ret |-> curr]
    ELSE rwoLoop([p EXCEPT ![x] = p[curr]], x, Unwrap(p[curr]))

\* UnionFind::root_with_optimize
root_with_optimize(p, x) == rwoLoop(p, x, x)

\* union, lines 32-36: (large, small) from the two roots.
pickLarge(sz, rx, ry) ==
    IF sizeOf(sz, rx) >= sizeOf(sz, ry) THEN <<rx, ry>> ELSE <<ry, rx>>

\* A link that forgets to add the sizes.
linkNoSize(p, sz, large, small) ==
    [parent |-> [p EXCEPT ![small] = Some(large)], size |-> sz]

\* union, lines 39-40: parent[small] = Some(large); size[large] += size[small].
link(p, sz, large, small) ==
    [parent |-> [p EXCEPT ![small] = Some(large)],
     size |-> [sz EXCEPT ![large] = sz[large] + sz[small]]]

\* A union that links the arguments themselves: y, not its root, goes under
\* the root of x.
unionLinksArgs(p, sz, x, y) ==
    IF x = y
    THEN [parent |-> p, size |-> sz, ret |-> "AlreadyUnified"]
    ELSE LET r1 == root_with_optimize(p, x)
             r2 == root_with_optimize(r1.parent, y)
         IN  IF r1.ret = r2.ret
             THEN [parent |-> r2.parent, size |-> sz, ret |-> "AlreadyUnified"]
             ELSE LET l == link(r2.parent, sz, r1.ret, y)
                  IN  [parent |-> l.parent, size |-> l.size, ret |-> "Unified"]

\* A union whose second early return names the wrong variant.
unionWrongVariant(p, sz, x, y) ==
    IF x = y
    THEN [parent |-> p, size |-> sz, ret |-> "AlreadyUnified"]
    ELSE LET r1 == root_with_optimize(p, x)
             r2 == root_with_optimize(r1.parent, y)
         IN  IF r1.ret = r2.ret
             THEN [parent |-> r2.parent, size |-> sz, ret |-> "Unified"]
             ELSE LET ls == pickLarge(sz, r1.ret, r2.ret)
                      l  == link(r2.parent, sz, ls[1], ls[2])
                  IN  [parent |-> l.parent, size |-> l.size, ret |-> "Unified"]

\* A union without the test of the two roots: a root may be linked to
\* itself.
unionNoRootTest(p, sz, x, y) ==
    IF x = y
    THEN [parent |-> p, size |-> sz, ret |-> "AlreadyUnified"]
    ELSE LET r1 == root_with_optimize(p, x)
             r2 == root_with_optimize(r1.parent, y)
             ls == pickLarge(sz, r1.ret, r2.ret)
             l  == link(r2.parent, sz, ls[1], ls[2])
         IN  [parent |-> l.parent, size |-> l.size, ret |-> "Unified"]

\* UnionFind::union as a function of the state: the new parent and size
\* vectors and the result.
unionOf(p, sz, x, y) ==
    IF x = y
    THEN [parent |-> p, size |-> sz, ret |-> "AlreadyUnified"]
    ELSE LET r1 == root_with_optimize(p, x)
             r2 == root_with_optimize(r1.parent, y)
         IN  IF r1.ret = r2.ret
             THEN [parent |-> r2.parent, size |-> sz, ret |-> "AlreadyUnified"]
             ELSE LET ls == pickLarge(sz, r1.ret, r2.ret)
                      l  == link(r2.parent, sz, ls[1], ls[2])
                  IN  [parent |-> l.parent, size |-> l.size, ret |-> "Unified"]

\* The classes of conn that hold x and y become one.
Merge(part, x, y) ==
    LET cx == CHOOSE c \in part : x \in c
        cy == CHOOSE c \in part : y \in c
    IN  (part \ {cx, cy}) \cup {cx \cup cy}

Union(x, y) ==
    LET u == unionOf(parent, size, x, y)
    IN  /\ parent' = u.parent
        /\ size' = u.size
        /\ conn' = Merge(conn, x, y)
        /\ ufcall' = [op |-> "union", x |-> x, y |-> y, ret |-> Some(u.ret)]
        /\ UNCHANGED <<dagvars, segvars, scanvars, primevars>>

\* An equiv that finds the two roots with the compressing find.
EquivOptimizing(x, y) ==
    LET r1 == root_with_optimize(parent, x)
        r2 == root_with_optimize(r1.parent, y)
    IN  /\ parent' = r2.parent
        /\ ufcall' = [op |-> "equiv", x |-> x, y |-> y, ret |-> Some(r1.ret = r2.ret)]
        /\ UNCHANGED <<size, conn, dagvars, segvars, scanvars, primevars>>

Equiv(x, y) ==
    /\ ufcall' = [op |-> "equiv", x |-> x, y |-> y, ret |-> Some(equiv(x, y))]
    /\ UNCHANGED <<parent, size, conn, dagvars, segvars, scanvars, primevars>>

Root(x) ==
    /\ ufcall' = [op |-> "root", x |-> x, y |-> x, ret |-> Some(root(x))]
    /\ UNCHANGED <<parent, size, conn, dagvars, segvars, scanvars, primevars>>

Size(x) ==
    /\ ufcall' = [op |-> "size", x |-> x, y |-> x, ret |-> Some(sizeOf(size, x))]
    /\ UNCHANGED <<parent, size, conn, dagvars, segvars, scanvars, primevars>>

NextUF ==
    \/ \E x, y \in Elems : Union(x, y)
    \/ \E x, y \in Elems : Equiv(x, y)
    \/ \E x \in Elems : Root(x)
    \/ \E x \in Elems : Size(x)

SpecUF == InitUF /\ [][NextUF]_vars

\* The set that holds x, and the partition, as the parent pointers give them.
ClassOf(p, x) == {y \in DOMAIN p : rootOf(p, y) = rootOf(p, x)}
Partition(p) == {ClassOf(p, x) : x \in DOMAIN p}
\* The class of x in the partition the union calls describe.
ConnClass(x) == CHOOSE c \in conn : x \in c

----------------------------------------------------------------------------
\* C1: after any sequence of union calls, for all distinct x, y, equiv(x, y)
\* is true exactly when x and y are connected, directly or transitively, by
\* the pairs passed to the earlier union calls.
C1_EquivIffConnected ==
    \A x, y \in Elems : x # y => (equiv(x, y) <=> y \in ConnClass(x))

\* C1 witness: three elements joined through two unions (0-1 and 1-2 or the
\* like) answer equiv = TRUE while a fourth stays apart.
C1_Witness ==
    /\ ufcall.op = "equiv"
    /\ ufcall.ret = Some(TRUE)
    /\ ufcall.x # ufcall.y
    /\ parent[ufcall.x] # Some(ufcall.y)
    /\ parent[ufcall.y] # Some(ufcall.x)
    /\ \E z \in Elems : ~ equiv(ufcall.x, z)

\* C2 (as claimed): size(x) is the number of elements of the set holding x,
\* for every member x, root or not.
C2_SizeOfAnyMember ==
    \A x \in Elems : sizeOf(size, x) = Cardinality(ClassOf(parent, x))

\* C3: union(x, y) returns AlreadyUnified exactly when x = y or x and y are
\* already in one set, and then no size entry and no set changes; otherwise
\* it returns Unified.
C3_AlreadyUnified ==
    [][ufcall'.op = "union" =>
        LET x == ufcall'.x
            y == ufcall'.y
            same == (x = y) \/ (rootOf(parent, x) = rootOf(parent, y))
        IN  /\ (ufcall'.ret = Some("AlreadyUnified")) <=> same
            /\ (ufcall'.ret = Some("Unified")) <=> ~ same
            /\ same => /\ size' = size
                       /\ Partition(parent') = Partition(parent)]_vars

\* C3 witness: union of two distinct elements of one set, neither the
\* parent of the other, returned AlreadyUnified.
C3_Witness ==
    /\ ufcall.op = "union"
    /\ ufcall.ret = Some("AlreadyUnified")
    /\ ufcall.x # ufcall.y
    /\ root(ufcall.x) # ufcall.x
    /\ root(ufcall.y) # ufcall.y

\* C4: union of two different sets attaches the root of the smaller set
\* under the root of the larger-or-equal one (the root of x on a tie), the
\* surviving root's size becomes the sum, Unified is returned and every
\* other set keeps its members.
C4_UnionBySize ==
    [][(ufcall'.op = "union"
        /\ rootOf(parent, ufcall'.x) # rootOf(parent, ufcall'.y)) =>
        LET x == ufcall'.x
            y == ufcall'.y
            rx == rootOf(parent, x)
            ry == rootOf(parent, y)
            large == IF size[rx] >= size[ry] THEN rx ELSE ry
            small == IF size[rx] >= size[ry] THEN ry ELSE rx
        IN  /\ ufcall'.ret = Some("Unified")
            /\ parent'[small] = Some(large)
            /\ parent'[large] = None
            /\ size'[large] = size[rx] + size[ry]
            /\ ClassOf(parent', large) = ClassOf(parent, x) \cup ClassOf(parent, y)
            /\ \A z \in Elems :
                   z \notin (ClassOf(parent, x) \cup ClassOf(parent, y))
                   => ClassOf(parent', z) = ClassOf(parent, z)]_vars

\* C4 witness: a union whose x was the root of the smaller set and went
\* under y, the root of a strictly larger set, while a third set exists.
C4_Witness ==
    /\ ufcall.op = "union"
    /\ ufcall.ret = Some("Unified")
    /\ parent[ufcall.y] = None
    /\ parent[ufcall.x] = Some(ufcall.y)
    /\ size[ufcall.y] >= 3
    /\ Cardinality(Partition(parent)) >= 2

\* Following parent from x for at most k steps: the root that is reached,
\* or -1 when there is none within k steps.
RECURSIVE rootWithin(_, _, _)
rootWithin(p, x, k) ==
    IF p[x] = None THEN x
    ELSE IF k = 0 THEN 0 - 1 ELSE rootWithin(p, Unwrap(p[x]), k - 1)

\* The elements met when following parent from x for at most k steps.
RECURSIVE walkFrom(_, _, _)
walkFrom(p, x, k) ==
    IF p[x] = None \/ k = 0 THEN <<x>> ELSE <<x>> \o walkFrom(p, Unwrap(p[x]), k - 1)

\* C12: in every state reachable from new(n) by union calls the parent
\* pointers form a forest: following parent from any element reaches a root
\* in at most n - 1 steps and meets no element twice; and for every root r,
\* size[r] is the number of elements whose root is r.
C12_Forest ==
    LET n == Cardinality(Elems)
    IN  /\ \A x \in Elems :
               LET w == walkFrom(parent, x, n)
               IN  /\ rootWithin(parent, x, n - 1) \in Elems
                   /\ \A a, b \in 1..Len(w) : a # b => w[a] # w[b]
        /\ \A r \in Elems :
               parent[r] = None =>
                   size[r] = Cardinality({x \in Elems : rootWithin(parent, x, n - 1) = r})

\* C12 witness: after a union, a root of size 4 with an element two steps
\* below it and an element one step below it.
C12_Witness ==
    /\ ufcall.op = "union"
    /\ \E r, a, b, c \in Elems :
           /\ parent[r] = None /\ size[r] = 4
           /\ parent[a] = Some(r) /\ parent[b] = Some(a) /\ parent[c] = Some(r)
           /\ a # c

\* C14 (as claimed): a union that returns AlreadyUnified leaves every
\* parent pointer and every size entry as it was.
C14_AlreadyUnifiedNoChange ==
    [][(ufcall'.op = "union" /\ ufcall'.ret = Some("AlreadyUnified")) =>
        /\ parent' = parent
        /\ size' = size]_vars

\* C14 (amended): a union(x, y) that returns AlreadyUnified leaves every
\* size entry, the root of every element and every parent pointer other
\* than those of x and y as they were; for x # y, x and y have their root
\* as parent afterwards unless they are the root, and for x = y no parent
\* pointer changes.
C14_AlreadyUnifiedFrame ==
    [][(ufcall'.op = "union" /\ ufcall'.ret = Some("AlreadyUnified")) =>
        LET x == ufcall'.x
            y == ufcall'.y
        IN  /\ size' = size
            /\ \A z \in Elems : rootOf(parent', z) = rootOf(parent, z)
            /\ \A z \in Elems \ {x, y} : parent'[z] = parent[z]
            /\ x = y => parent' = parent
            /\ x # y => \A z \in {x, y} :
                   parent'[z] = IF parent[z] = None THEN None
                                ELSE Some(rootOf(parent, z))]_vars

\* C14 witness: a union of two different elements, neither a root, returned
\* AlreadyUnified, and an element that was the root of a set of two has no
\* child left: the child was re-pointed to the root above.
C14_Witness ==
    /\ ufcall.op = "union"
    /\ ufcall.ret = Some("AlreadyUnified")
    /\ ufcall.x # ufcall.y
    /\ parent[ufcall.x] # None
    /\ parent[ufcall.y] # None
    /\ \E a \in Elems :
           /\ size[a] = 2
           /\ parent[a] # None
           /\ \A z \in Elems : parent[z] # Some(a)
           /\ size[ufcall.x] = 1 /\ ufcall.x # a

(***************************************************************************)
(* A UnionFind of FindN elements under union calls alone: union by size    *)
(* needs 2^h elements for a tree of height h, and a path with an element   *)
(* between x and its parent's parent's parent needs height 3.              *)
(***************************************************************************)
FindN == 8

InitFind ==
    /\ NewUF(FindN)
    /\ NewDag(1)
    /\ NewSeg(1)
    /\ NewScanner(<<>>)
    /\ NewPrime(0)

\* The calls union(x, x + 2^k), the merges of a tournament.
FindPairs == {<<x, x + d>> : x \in 0..(FindN - 1), d \in {1, 2, 4}} \cap (Elems \X Elems)

NextFind == \E xy \in FindPairs : Union(xy[1], xy[2])

SpecFind == InitFind /\ [][NextFind]_vars

\* What C13 says of one root_with_optimize(x) on the parent vector p: it
\* returns the root of x and leaves every element on the path from x to the
\* root, the root apart, with the root as its parent.
CompressesPath(p, x) ==
    LET r == rootOf(p, x)
        w == walkFrom(p, x, FindN)
        f == root_with_optimize(p, x)
    IN  /\ f.ret = r
        /\ \A a \in 1..Len(w) : w[a] # r => f.parent[w[a]] = Some(r)

\* C13 (as claimed): the two compressing finds of every union(x, y), x # y,
\* root_with_optimize(x) and then root_with_optimize(y), return the root
\* and leave every non-root element visited with the root as its parent.
C13_CompressesPath ==
    [][(ufcall'.op = "union" /\ ufcall'.x # ufcall'.y) =>
        /\ CompressesPath(parent, ufcall'.x)
        /\ CompressesPath(root_with_optimize(parent, ufcall'.x).parent, ufcall'.y)]_vars

----------------------------------------------------------------------------
(***************************************************************************)
(* graph/dag.rs                                                            *)
(***************************************************************************)
\* const INF: i64 = i64::MAX.  The model's integers are 32 bits wide, so INF
\* is the largest of them and MinInt the smallest.
INF == 2147483647
MinInt == (0 - INF) - 1

Verts == DOMAIN edges
Costs == 0..MaxCost
Edge(from, to, cost) == [from |-> from, to |-> to, cost |-> cost]

\* Dag::size
dagSize(ed) == Cardinality(DOMAIN ed)

\* An addition that wraps around on overflow (i64::wrapping_add).
wrapping_add(a, b) ==
    IF a >= 0 /\ b >= 0 /\ a > INF - b
    THEN ((a - INF) - 1) + ((b - INF) - 1)
    ELSE IF a < 0 /\ b < 0 /\ a < MinInt - b
         THEN ((a + INF) + 1) + ((b + INF) + 1)
         ELSE a + b

\* i64::saturating_add
saturating_add(a, b) ==
    IF a >= 0 /\ b >= 0
    THEN IF a > INF - b THEN INF ELSE a + b
    ELSE IF a < 0 /\ b < 0
         THEN IF a < MinInt - b THEN MinInt ELSE a + b
         ELSE a + b

\* Vec::swap_remove(idx), idx counted from 1: the last element takes the
\* place of the removed one.
swap_remove(s, idx) ==
    IF idx = Len(s)
    THEN SubSeq(s, 1, Len(s) - 1)
    ELSE SubSeq([s EXCEPT ![idx] = s[Len(s)]], 1, Len(s) - 1)

\* adj.iter().position(|edge| edge.to == to): 0 stands for None.
position(adj, to) ==
    IF \E i \in 1..Len(adj) : adj[i].to = to
    THEN CHOOSE i \in 1..Len(adj) :
             /\ adj[i].to = to
             /\ \A k \in 1..(i - 1) : adj[k].to # to
    ELSE 0

\* A removal that drops every edge to `to` (Vec::retain).
removeAll(adj, to) == SelectSeq(adj, LAMBDA e : e.to # to)

\* Dag::remove_edge on the list of `from`.
removeFrom(adj, to) ==
    IF position(adj, to) = 0 THEN adj ELSE swap_remove(adj, position(adj, to))

\* Dag::edges: the lists of the vertices 0, 1, ... one after the other.
RECURSIVE flatten(_, _)
flatten(ed, v) ==
    IF v >= dagSize(ed) THEN <<>> ELSE ed[v] \o flatten(ed, v + 1)

allEdges(ed) == flatten(ed, 0)

NumEdges == Len(allEdges(edges))

AddEdge(from, to, cost) ==
    /\ ~ dj
    /\ NumEdges < MaxEdges
    /\ edges' = [edges EXCEPT ![from] = Append(@, Edge(from, to, cost))]
    /\ dcall' = [op |-> "add_edge", from |-> from, to |-> to, ret |-> Some(cost)]
    /\ UNCHANGED <<dj, dist, queue, ufvars, segvars, scanvars, primevars>>

RemoveEdge(from, to) ==
    /\ ~ dj
    /\ edges' = [edges EXCEPT ![from] = removeFrom(@, to)]
    /\ dcall' = [op |-> "remove_edge", from |-> from, to |-> to, ret |-> None]
    /\ UNCHANGED <<dj, dist, queue, ufvars, segvars, scanvars, primevars>>

\* floyd_warshall, lines 63-68: INF everywhere, 0 on the diagonal.
fwInit(n) ==
    [i \in 0..(n - 1) |-> [j \in 0..(n - 1) |-> IF i = j THEN 0 ELSE INF]]

\* An edge write that keeps the cheaper of the entry and the edge.
RECURSIVE fwWriteMin(_, _, _)
fwWriteMin(dp, es, i) ==
    IF i > Len(es) THEN dp
    ELSE fwWriteMin([dp EXCEPT ![es[i].from][es[i].to] =
                        IF es[i].cost < @ THEN es[i].cost ELSE @], es, i + 1)

\* floyd_warshall, lines 71-73: dp[e.from][e.to] = e.cost for each edge in
\* the order of Dag::edges.
RECURSIVE fwWrite(_, _, _)
fwWrite(dp, es, i) ==
    IF i > Len(es) THEN dp
    ELSE fwWrite([dp EXCEPT ![es[i].from][es[i].to] = es[i].cost], es, i + 1)

\* chmin
chmin(a, b) == IF b < a THEN b ELSE a

\* One pass of the body of the triple loop, in place.
fwRelax(dp, k, i, j) ==
    [dp EXCEPT ![i][j] = chmin(dp[i][j], saturating_add(dp[i][k], dp[k][j]))]

\* floyd_warshall, lines 81-88: for k, for i, for j; t counts the passes.
RECURSIVE fwLoop(_, _, _)
fwLoop(dp, n, t) ==
    IF t >= n * n * n THEN dp
    ELSE fwLoop(fwRelax(dp, t \div (n * n), (t \div n) % n, t % n), n, t + 1)

\* Dag::floyd_warshall
floyd_warshall(ed) ==
    LET n == dagSize(ed)
    IN  fwLoop(fwWrite(fwInit(n), allEdges(ed), 1), n, 0)

FloydWarshall ==
    /\ ~ dj
    /\ dcall' = [op |-> "floyd_warshall", from |-> 0, to |-> 0,
                 ret |-> Some(floyd_warshall(edges))]
    /\ UNCHANGED <<edges, dj, dist, queue, ufvars, segvars, scanvars, primevars>>

\* djkstra's State and its Ord: a is greater than b when its cost is lower,
\* or the costs are equal and its position is higher.
State(position_, cost) == [position |-> position_, cost |-> cost]
greater(a, b) ==
    \/ a.cost < b.cost
    \/ a.cost = b.cost /\ a.position > b.position

\* A heap that pops the highest cost first (the Ord not reversed).
popHighest(q) ==
    CHOOSE s \in q : \A t \in q \ {s} :
        \/ s.cost > t.cost
        \/ s.cost = t.cost /\ s.position > t.position

\* BinaryHeap::pop: the greatest element.
pop(q) == CHOOSE s \in q : \A t \in q \ {s} : greater(s, t)

\* A relaxation that pushes the cheaper way and does not write it to dist.
RECURSIVE relaxNoDist(_, _, _, _, _)
relaxNoDist(adj, i, cost, d, q) ==
    IF i > Len(adj) THEN [dist |-> d, queue |-> q]
    ELSE LET next == State(adj[i].to, adj[i].cost + cost)
         IN  IF next.cost < d[next.position]
             THEN relaxNoDist(adj, i + 1, cost, d, q \cup {next})
             ELSE relaxNoDist(adj, i + 1, cost, d, q)

\* djkstra, lines 141-150: the edges of the popped vertex in order; a
\* cheaper way to edge.to is pushed and written to dist.
RECURSIVE relax(_, _, _, _, _)
relax(adj, i, cost, d, q) ==
    IF i > Len(adj) THEN [dist |-> d, queue |-> q]
    ELSE LET next == State(adj[i].to, adj[i].cost + cost)
         IN  IF next.cost < d[next.position]
             THEN relax(adj, i + 1, cost,
                        [d EXCEPT ![next.position] = next.cost], q \cup {next})
             ELSE relax(adj, i + 1, cost, d, q)

\* djkstra, lines 123-130: the call starts with dist[from] = 0 and the heap
\* holding State { position: from, cost: 0 }.  prev is None, or Some of
\* what the call before it returned when that was the same query.
DjkstraCall(from, to, prev) ==
    /\ ~ dj
    /\ dj' = TRUE
    /\ dcall' = [op |-> "djkstra", from |-> from, to |-> to, ret |-> None,
                 prev |-> prev]
    /\ dist' = [[v \in Verts |-> INF] EXCEPT ![from] = 0]
    /\ queue' = {State(from, 0)}
    /\ UNCHANGED <<edges, ufvars, segvars, scanvars, primevars>>

DjkstraStart(from, to) == DjkstraCall(from, to, None)

\* The djkstra query that has just returned, made once more.
DjkstraAgain ==
    /\ dcall.op = "djkstra"
    /\ DjkstraCall(dcall.from, dcall.to, Some(dcall.ret))

\* The call returns: its locals are dropped.
DjkstraReturn(ret) ==
    /\ dcall' = [dcall EXCEPT !.ret = ret]
    /\ dj' = FALSE
    /\ dist' = <<>>
    /\ queue' = {}

\* One pass of `while let Some(State { position, cost }) = queue.pop()`.
DjkstraStep ==
    /\ dj
    /\ IF queue = {}
       THEN DjkstraReturn(None)
       ELSE LET s == pop(queue)
                rest == queue \ {s}
            IN  IF s.position = dcall.to
                THEN DjkstraReturn(Some(s.cost))
                ELSE IF s.cost > dist[s.position]
                     THEN /\ queue' = rest
                          /\ UNCHANGED <<dist, dj, dcall>>
                     ELSE LET r == relax(edges[s.position], 1, s.cost, dist, rest)
                          IN  /\ dist' = r.dist
                              /\ queue' = r.queue
                              /\ UNCHANGED <<dj, dcall>>
    /\ UNCHANGED <<edges, ufvars, segvars, scanvars, primevars>>

InitDag ==
    /\ \E n \in 1..MaxV : NewDag(n)
    /\ NewUF(1)
    /\ NewSeg(1)
    /\ NewScanner(<<>>)
    /\ NewPrime(0)

NextDag ==
    \/ \E from, to \in Verts : \E cost \in Costs : AddEdge(from, to, cost)
    \/ \E from, to \in Verts : RemoveEdge(from, to)
    \/ FloydWarshall
    \/ \E from, to \in Verts : DjkstraStart(from, to)
    \/ DjkstraStep

SpecDag == InitDag /\ [][NextDag]_vars

\* The costs of the walks from i to j of at most k edges.
RECURSIVE WalkCosts(_, _, _, _)
WalkCosts(ed, i, j, k) ==
    IF k = 0
    THEN IF i = j THEN {0} ELSE {}
    ELSE WalkCosts(ed, i, j, k - 1) \cup
         UNION {{c + ed[m][x].cost : c \in WalkCosts(ed, i, m, k - 1)} :
                <<m, x>> \in {<<m, x>> \in (DOMAIN ed) \X (1..MaxEdges + 1) :
                                 x <= Len(ed[m]) /\ ed[m][x].to = j}}

Min(S) == CHOOSE c \in S : \A d \in S : c <= d

\* With costs >= 0 a cheapest walk needs no vertex twice, so size - 1 edges
\* are enough.
PathCosts(ed, i, j) == WalkCosts(ed, i, j, dagSize(ed) - 1)
HasPath(ed, i, j) == PathCosts(ed, i, j) # {}
NonNegative(ed) == \A e \in {allEdges(ed)[x] : x \in 1..Len(allEdges(ed))} : e.cost >= 0
NoParallel(ed) ==
    \A v \in DOMAIN ed : \A x, y \in 1..Len(ed[v]) : x # y => ed[v][x].to # ed[v][y].to
NoSelfLoop(ed) ==
    \A v \in DOMAIN ed : \A x \in 1..Len(ed[v]) : ed[v][x].to # v

\* C5: with all costs >= 0 (parallel edges, self-loops and cycles allowed)
\* djkstra(source, target) returns Some(d), d the least total cost of a
\* directed path from source to target (0 when they are equal), and None
\* exactly when there is no such path.
C5_DjkstraShortest ==
    (dcall.op = "djkstra" /\ ~ dj /\ NonNegative(edges)) =>
        IF HasPath(edges, dcall.from, dcall.to)
        THEN dcall.ret = Some(Min(PathCosts(edges, dcall.from, dcall.to)))
        ELSE dcall.ret = None

\* C5 witness: djkstra returned a cost that a path of two or more edges
\* reaches and that is lower than the cost of a direct edge to the target.
C5_Witness ==
    /\ dcall.op = "djkstra"
    /\ ~ dj
    /\ dcall.ret # None
    /\ dcall.from # dcall.to
    /\ \E x \in 1..Len(edges[dcall.from]) : edges[dcall.from][x].to = dcall.to
    /\ \A x \in 1..Len(edges[dcall.from]) :
           edges[dcall.from][x].to = dcall.to
           => edges[dcall.from][x].cost > Unwrap(dcall.ret)

\* C6: with all costs >= 0, no parallel edges and no self-loops, entry
\* [i][j] of the matrix floyd_warshall returns is the least total cost of a
\* directed path from i to j (0 when i = j), and INF exactly when there is
\* no such path.
C6_FloydWarshallShortest ==
    (dcall.op = "floyd_warshall" /\ NonNegative(edges)
     /\ NoParallel(edges) /\ NoSelfLoop(edges)) =>
        \A i, j \in Verts :
            LET d == Unwrap(dcall.ret)[i][j]
            IN  /\ HasPath(edges, i, j) => d = Min(PathCosts(edges, i, j))
                /\ ~ HasPath(edges, i, j) => d = INF
                /\ d = INF => ~ HasPath(edges, i, j)
                /\ i = j => d = 0

\* C6 witness: a matrix, for a graph without parallel edges and self-loops,
\* with an entry below the cost of the direct edge and an INF entry.
C6_Witness ==
    /\ dcall.op = "floyd_warshall"
    /\ NoParallel(edges) /\ NoSelfLoop(edges)
    /\ \E v \in Verts : \E x \in 1..Len(edges[v]) :
           Unwrap(dcall.ret)[v][edges[v][x].to] < edges[v][x].cost
    /\ \E i, j \in Verts : Unwrap(dcall.ret)[i][j] = INF

\* The multiset of the stored edges, over all the lists.
EdgeBag(ed) ==
    LET es == allEdges(ed)
    IN  [e \in {es[x] : x \in 1..Len(es)} |->
            Cardinality({x \in 1..Len(es) : es[x] = e})]

\* C7: add_edge(from, to, cost) inserts one edge, duplicates kept;
\* remove_edge(from, to) deletes exactly one edge with that from and to when
\* there is one and nothing otherwise; the list of vertex v holds only edges
\* with from = v; a call on `from` leaves the lists of the other vertices
\* alone.
C7_EdgeMultiset ==
    [][(dcall'.op \in {"add_edge", "remove_edge"}) =>
        LET from == dcall'.from
            to == dcall'.to
            before == EdgeBag(edges)
            after == EdgeBag(edges')
            match == {e \in BagToSet(before) : e.from = from /\ e.to = to}
        IN  /\ dcall'.op = "add_edge" =>
                after = before (+) SetToBag({Edge(from, to, Unwrap(dcall'.ret))})
            /\ (dcall'.op = "remove_edge" /\ match = {}) => after = before
            /\ (dcall'.op = "remove_edge" /\ match # {}) =>
                \E g \in match : after = before (-) SetToBag({g})
            /\ \A v \in Verts : \A x \in 1..Len(edges'[v]) : edges'[v][x].from = v
            /\ \A v \in Verts : v # from => edges'[v] = edges[v]]_vars

\* C7 witness: remove_edge took one of two parallel edges and left the
\* other, beside an edge to another vertex, in the list.
C7_Witness ==
    /\ dcall.op = "remove_edge"
    /\ Len(edges[dcall.from]) >= 2
    /\ \E x \in 1..Len(edges[dcall.from]) : edges[dcall.from][x].to = dcall.to
    /\ \E x \in 1..Len(edges[dcall.from]) : edges[dcall.from][x].to # dcall.to

\* C15: whenever djkstra pops the target and returns its cost, that cost
\* is dist[target] at that moment; and a popped entry for another vertex
\* whose cost exceeds dist of that vertex is dropped, with dist unchanged
\* and nothing pushed.
C15_TargetNotStale ==
    [][(dj /\ queue # {}) =>
        LET s == pop(queue)
        IN  /\ s.position = dcall.to =>
                   /\ ~ dj'
                   /\ dcall'.ret = Some(s.cost)
                   /\ s.cost = dist[dcall.to]
            /\ (s.position # dcall.to /\ s.cost > dist[s.position]) =>
                   /\ dj'
                   /\ dist' = dist
                   /\ queue' = queue \ {s}]_vars

\* C15 witness: a running djkstra is about to pop an entry whose cost
\* exceeds dist of its vertex, which is not the target, while an entry for
\* the target waits in the queue behind it.
C15_Witness ==
    /\ dj
    /\ queue # {}
    /\ pop(queue).position # dcall.to
    /\ pop(queue).cost > dist[pop(queue).position]
    /\ \E t \in queue : t.position = dcall.to /\ t.cost = dist[dcall.to]

\* C17 (as claimed): with all costs >= 0, the matrix floyd_warshall returns
\* has 0 at [v][v] for every vertex v, a self-loop of non-zero cost or not.
C17_DiagonalZero ==
    (dcall.op = "floyd_warshall" /\ NonNegative(edges)) =>
        \A v \in Verts : Unwrap(dcall.ret)[v][v] = 0

\* The matrix of floyd_warshall after the edges are written, before the
\* triple loop.
Written(ed) == fwWrite(fwInit(dagSize(ed)), allEdges(ed), 1)
\* The place in adj of the last edge to v.
LastTo(adj, v) ==
    CHOOSE x \in 1..Len(adj) :
        adj[x].to = v /\ \A y \in (x + 1)..Len(adj) : adj[y].to # v

\* C18: for u # v with one or more stored edges from u to v, the value
\* floyd_warshall writes to [u][v] before the relaxation is the cost of the
\* last of them in the list of u, which right after add_edge(u, v, cost) is
\* that cost; it is not the minimum over the parallel edges.
C18_LastParallelEdge ==
    /\ \A u, v \in Verts :
           (u # v /\ \E x \in 1..Len(edges[u]) : edges[u][x].to = v) =>
               Written(edges)[u][v] = edges[u][LastTo(edges[u], v)].cost
    /\ (dcall.op = "add_edge" /\ dcall.from # dcall.to) =>
           Written(edges)[dcall.from][dcall.to] = Unwrap(dcall.ret)

\* C18 witness: floyd_warshall ran on a graph with two edges from u to v,
\* the cheaper one first, and returned the cost of the second at [u][v].
C18_Witness ==
    /\ dcall.op = "floyd_warshall"
    /\ \E u, v \in Verts : \E x, y \in 1..Len(edges[u]) :
           /\ u # v /\ x < y
           /\ edges[u][x].to = v /\ edges[u][y].to = v
           /\ edges[u][x].cost < edges[u][y].cost
           /\ y = LastTo(edges[u], v)
           /\ Written(edges)[u][v] = edges[u][y].cost
           /\ Unwrap(dcall.ret)[u][v] = edges[u][y].cost

(***************************************************************************)
(* A Dag whose edges cost -MaxNeg..MaxNeg, under add_edge, remove_edge and *)
(* floyd_warshall (djkstra is for costs >= 0).                             *)
(***************************************************************************)
MaxNeg == 1
SignedCosts == (0 - MaxNeg)..MaxNeg

NextFW ==
    \/ \E from, to \in Verts : \E cost \in SignedCosts : AddEdge(from, to, cost)
    \/ \E from, to \in Verts : RemoveEdge(from, to)
    \/ FloydWarshall

SpecFW == InitDag /\ [][NextFW]_vars

HasNegative(ed) ==
    \E e \in {allEdges(ed)[x] : x \in 1..Len(allEdges(ed))} : e.cost < 0
\* No closed walk of at most size edges costs less than 0.
NoNegativeCycle(ed) ==
    \A v \in DOMAIN ed : \A c \in WalkCosts(ed, v, v, dagSize(ed)) : c >= 0

\* C16 (as claimed): for a graph with negative costs and no negative cycle,
\* the matrix of floyd_warshall holds INF at [i][j] for every ordered pair
\* without a directed path from i to j.
C16_UnreachableStaysINF ==
    (dcall.op = "floyd_warshall" /\ HasNegative(edges) /\ NoNegativeCycle(edges)) =>
        \A i, j \in Verts :
            ~ HasPath(edges, i, j) => Unwrap(dcall.ret)[i][j] = INF

(***************************************************************************)
(* A UnionFind and a Dag side by side, for what the queries of the two     *)
(* have in common.                                                         *)
(***************************************************************************)
FrameN == 4          \* the UnionFind of this specification is new(FrameN)
FrameV == 2          \* its Dag is new(FrameV)
FrameEdges == 1      \* and holds up to FrameEdges edges
FrameCost == 1       \* of a cost in 1..FrameCost

InitFrame ==
    /\ NewUF(FrameN)
    /\ NewDag(FrameV)
    /\ NewSeg(1)
    /\ NewScanner(<<>>)
    /\ NewPrime(0)

NextFrame ==
    \/ \E x, y \in Elems : Union(x, y)
    \/ \E x, y \in Elems : Equiv(x, y)
    \/ \E x \in Elems : Root(x)
    \/ \E from, to \in Verts : \E cost \in 1..FrameCost :
           NumEdges < FrameEdges /\ AddEdge(from, to, cost)
    \/ \E from, to \in Verts : RemoveEdge(from, to)
    \/ FloydWarshall
    \/ \E from, to \in Verts : DjkstraStart(from, to)
    \/ DjkstraAgain
    \/ DjkstraStep

SpecFrame == InitFrame /\ [][NextFrame]_vars

\* C11: equiv and root leave parent and size as they were, floyd_warshall
\* and every step of djkstra leave the edges as they were, and a query that
\* repeats the one before it, with no union, add_edge or remove_edge in
\* between, returns what that one returned (for djkstra, whose result the
\* new call overwrites, prev keeps the one to compare with).
C11_QueriesLeaveState ==
    [][/\ ufcall'.op \in {"equiv", "root"} =>
            /\ parent' = parent
            /\ size' = size
            /\ (ufcall.op = ufcall'.op /\ ufcall.x = ufcall'.x /\ ufcall.y = ufcall'.y)
                   => ufcall'.ret = ufcall.ret
       /\ dcall'.op \in {"floyd_warshall", "djkstra"} => edges' = edges
       /\ (dcall.op = "floyd_warshall" /\ dcall'.op = "floyd_warshall")
              => dcall'.ret = dcall.ret
       /\ (dcall'.op = "djkstra" /\ ~ dj' /\ dcall'.prev # None)
              => dcall'.ret = Unwrap(dcall'.prev)]_vars

\* C11 witness: a djkstra between two different vertices returned a cost for
\* the second time in a row, and the last UnionFind call was an equiv that
\* answered TRUE for an element two steps below its root.
C11_Witness ==
    /\ dcall.op = "djkstra"
    /\ ~ dj
    /\ dcall.from # dcall.to
    /\ dcall.ret # None
    /\ dcall.prev = Some(dcall.ret)
    /\ ufcall.op = "equiv"
    /\ ufcall.ret = Some(TRUE)
    /\ parent[ufcall.x] # None
    /\ parent[ufcall.x] # Some(root(ufcall.x))

----------------------------------------------------------------------------
(***************************************************************************)
(* collections/segment_tree: the buffer is a binary heap in an array, the  *)
(* leaves at capacity..2*capacity-1, node k the combination of 2k and 2k+1.*)
(***************************************************************************)
capacity == next_power_of_two(segn)

\* update, the walk to the root: each ancestor is recomputed from its two
\* children.
RECURSIVE walkUp(_, _)
walkUp(nodes, k) ==
    IF k < 1 THEN nodes
    ELSE walkUp([nodes EXCEPT ![k] = combine(nodes[2 * k], nodes[2 * k + 1])], k \div 2)

\* SegmentTree::update(position, value)
update(nodes, cap, pos_, value) ==
    walkUp([nodes EXCEPT ![cap + pos_] = value], (cap + pos_) \div 2)

\* A decomposition that puts a right-hand subtree after what is already
\* gathered on the right.
RECURSIVE queryLoopSwapped(_, _, _, _, _)
queryLoopSwapped(nodes, l, r, resl, resr) ==
    IF l >= r THEN combine(resl, resr)
    ELSE LET resl2 == IF l % 2 = 1 THEN combine(resl, nodes[l]) ELSE resl
             l2 == IF l % 2 = 1 THEN l + 1 ELSE l
             resr2 == IF r % 2 = 1 THEN combine(resr, nodes[r - 1]) ELSE resr
             r2 == IF r % 2 = 1 THEN r - 1 ELSE r
         IN  queryLoopSwapped(nodes, l2 \div 2, r2 \div 2, resl2, resr2)

\* query, the iterative decomposition: whole subtrees are peeled off the two
\* ends of [l, r), those on the left gathered left to right in resl, those
\* on the right gathered right to left in resr.
RECURSIVE queryLoop(_, _, _, _, _)
queryLoop(nodes, l, r, resl, resr) ==
    IF l >= r THEN combine(resl, resr)
    ELSE LET resl2 == IF l % 2 = 1 THEN combine(resl, nodes[l]) ELSE resl
             l2 == IF l % 2 = 1 THEN l + 1 ELSE l
             resr2 == IF r % 2 = 1 THEN combine(nodes[r - 1], resr) ELSE resr
             r2 == IF r % 2 = 1 THEN r - 1 ELSE r
         IN  queryLoop(nodes, l2 \div 2, r2 \div 2, resl2, resr2)

\* SegmentTree::query(lo..hi)
query(nodes, cap, lo, hi) == queryLoop(nodes, cap + lo, cap + hi, identity, identity)

\* SegmentTree::get(position)
get(nodes, cap, pos_) == query(nodes, cap, pos_, pos_ + 1)

Update(pos_, value) ==
    /\ pos_ < segn
    /\ tree' = update(tree, capacity, pos_, value)
    /\ leaves' = [leaves EXCEPT ![pos_] = value]
    /\ segcall' = [op |-> "update", lo |-> pos_, hi |-> pos_ + 1, ret |-> Some(value)]
    /\ UNCHANGED <<segn, ufvars, dagvars, scanvars, primevars>>

Query(lo, hi) ==
    /\ lo < hi
    /\ segcall' = [op |-> "query", lo |-> lo, hi |-> hi,
                   ret |-> Some(query(tree, capacity, lo, hi))]
    /\ UNCHANGED <<segn, tree, leaves, ufvars, dagvars, scanvars, primevars>>

Get(pos_) ==
    /\ segcall' = [op |-> "get", lo |-> pos_, hi |-> pos_ + 1,
                   ret |-> Some(get(tree, capacity, pos_))]
    /\ UNCHANGED <<segn, tree, leaves, ufvars, dagvars, scanvars, primevars>>

SeqsUpTo(n) == UNION {[1..k -> Vals \ {identity}] : k \in 0..n}

InitSeg ==
    /\ \/ \E n \in 0..MaxSize : NewSeg(n)
       \/ \E values \in SeqsUpTo(MaxSize) : FromVec(values)
    /\ NewUF(1)
    /\ NewDag(1)
    /\ NewScanner(<<>>)
    /\ NewPrime(0)

NextSeg ==
    \/ \E pos_ \in 0..(segn - 1) : \E value \in Vals : Update(pos_, value)
    \/ \E lo \in 0..(capacity - 1) : \E hi \in 1..capacity : Query(lo, hi)
    \/ \E pos_ \in 0..(capacity - 1) : Get(pos_)

SpecSeg == InitSeg /\ [][NextSeg]_vars

\* The leaf values lo..hi-1 combined from left to right.
RECURSIVE InOrder(_, _, _)
InOrder(lv, lo, hi) ==
    IF lo >= hi THEN identity ELSE combine(lv[lo], InOrder(lv, lo + 1, hi))

\* C8: after any sequence of update(position, value) with position below the
\* logical size, on a tree from new or from_vec, query(lo..hi) for every
\* 0 <= lo < hi <= capacity is the combination, left to right, of the
\* current leaf values lo..hi-1 (identity for never-written and padding
\* leaves); get(i) is query(i..i+1), and get(logical_size) is identity when
\* logical_size is below the capacity.
C8_QueryInOrder ==
    /\ segcall.op = "query" =>
           segcall.ret = Some(InOrder(leaves, segcall.lo, segcall.hi))
    /\ segcall.op = "get" =>
           /\ segcall.ret = Some(leaves[segcall.lo])
           /\ segcall.ret = Some(query(tree, capacity, segcall.lo, segcall.lo + 1))
    /\ segn < capacity => get(tree, capacity, segn) = identity

\* C8 witness: a query over a range that starts after leaf 0 and reaches
\* into the padding returned two different values in leaf order.
C8_Witness ==
    /\ segcall.op = "query"
    /\ segcall.lo >= 1 /\ segcall.hi > segn
    /\ Len(Unwrap(segcall.ret)) >= 2
    /\ Unwrap(segcall.ret)[1] # Unwrap(segcall.ret)[2]
    /\ Unwrap(segcall.ret) = InOrder(leaves, segcall.lo, segn)

----------------------------------------------------------------------------
(***************************************************************************)
(* contest.rs: cio::Scanner over a reader of bytes.  A byte is a string of *)
(* one character.                                                          *)
(***************************************************************************)
SP == " "
NL == "\n"
Bytes == {"a", "1", SP, NL}
Digits == {"1"}

\* BufRead::read_until(b'\n'): the index of the last byte it reads, from
\* rp + 1 up to and including the next newline or the end of the input.
read_until(inp, rp) ==
    IF \E e \in (rp + 1)..Len(inp) : inp[e] = NL
    THEN CHOOSE e \in (rp + 1)..Len(inp) :
             inp[e] = NL /\ \A k \in (rp + 1)..(e - 1) : inp[k] # NL
    ELSE Len(inp)

\* A fill_buf that leaves a last line without a newline as it is.
fillNoPush(inp, rp) ==
    LET e == read_until(inp, rp)
    IN  IF e - rp = 0
        THEN [ok |-> FALSE, rpos |-> rp, buf |-> <<>>, pos |-> 0]
        ELSE [ok |-> TRUE, rpos |-> e, buf |-> SubSeq(inp, rp + 1, e), pos |-> 0]

\* Scanner::fill_buf: the buffer is cleared, pos is 0; Err(Eof) when nothing
\* is read, else the line, with a newline pushed when it has none.
fill_buf(inp, rp) ==
    LET e == read_until(inp, rp)
        line == SubSeq(inp, rp + 1, e)
    IN  IF e - rp = 0
        THEN [ok |-> FALSE, rpos |-> rp, buf |-> <<>>, pos |-> 0]
        ELSE [ok |-> TRUE, rpos |-> e, pos |-> 0,
              buf |-> IF line[Len(line)] = NL THEN line ELSE Append(line, NL)]

\* try_scan, lines 98-118: the loop over (buf[pos], from.is_some()).  The
\* result is the scanner's state and how the loop ended: "Token" with from,
\* "Eof" from fill_buf, or "Panic" when buf[pos] is out of bounds.
RECURSIVE scanLoop(_, _, _, _, _)
scanLoop(inp, rp, b, p, from) ==
    IF p >= Len(b)
    THEN [rpos |-> rp, buf |-> b, pos |-> p, end |-> "Panic", from |-> 0]
    ELSE LET c == b[p + 1]
         IN  IF from = None
             THEN IF c = SP THEN scanLoop(inp, rp, b, p + 1, from)
                  ELSE IF c = NL
                       THEN LET f == fill_buf(inp, rp)
                            IN  IF f.ok
                                THEN scanLoop(inp, f.rpos, f.buf, f.pos, from)
                                ELSE [rpos |-> f.rpos, buf |-> f.buf, pos |-> f.pos,
                                      end |-> "Eof", from |-> 0]
                       ELSE scanLoop(inp, rp, b, p + 1, Some(p))
             ELSE IF c = SP \/ c = NL
                  THEN [rpos |-> rp, buf |-> b, pos |-> p, end |-> "Token",
                        from |-> Unwrap(from)]
                  ELSE scanLoop(inp, rp, b, p + 1, from)

\* str::parse::<u32> on the bytes of the model: decimal digits only.
RECURSIVE decimal(_, _)
decimal(part, k) ==
    IF k = 0 THEN 0 ELSE 10 * decimal(part, k - 1) + (IF part[k] = "1" THEN 1 ELSE 0)

\* part.parse::<T>() for T = String and T = u32.
parse(ty, part) ==
    IF ty = "String"
    THEN [kind |-> "Ok", ty |-> ty, part |-> part, str |-> part, num |-> 0]
    ELSE IF \A k \in 1..Len(part) : part[k] \in Digits
         THEN [kind |-> "Ok", ty |-> ty, part |-> part, str |-> <<>>,
               num |-> decimal(part, Len(part))]
         ELSE [kind |-> "Parse", ty |-> ty, part |-> part, str |-> <<>>, num |-> 0]

Failed(kind, ty) == [kind |-> kind, ty |-> ty, part |-> <<>>, str |-> <<>>, num |-> 0]

\* A try_scan that enters the loop without filling an empty buffer.
tryScanNoFill(inp, rp, b, p, ty) ==
    LET l == scanLoop(inp, rp, b, p, None)
    IN  [rpos |-> l.rpos, buf |-> l.buf, pos |-> l.pos,
         res |-> IF l.end = "Token"
                 THEN parse(ty, SubSeq(l.buf, l.from + 1, l.pos))
                 ELSE Failed(l.end, ty)]

\* Scanner::try_scan::<T>: the scanner's new state and the result.
try_scan(inp, rp, b, p, ty) ==
    LET f == IF b = <<>> THEN fill_buf(inp, rp)
             ELSE [ok |-> TRUE, rpos |-> rp, buf |-> b, pos |-> p]
    IN  IF ~ f.ok
        THEN [rpos |-> f.rpos, buf |-> f.buf, pos |-> f.pos, res |-> Failed("Eof", ty)]
        ELSE LET l == scanLoop(inp, f.rpos, f.buf, f.pos, None)
             IN  [rpos |-> l.rpos, buf |-> l.buf, pos |-> l.pos,
                  res |-> IF l.end = "Token"
                          THEN parse(ty, SubSeq(l.buf, l.from + 1, l.pos))
                          ELSE Failed(l.end, ty)]

TryScan(ty) ==
    /\ Len(out) < MaxCalls
    /\ \A n \in 1..Len(out) : out[n].kind # "Panic"
    /\ LET r == try_scan(input, rpos, buf, pos, ty)
       IN  /\ rpos' = r.rpos
           /\ buf' = r.buf
           /\ pos' = r.pos
           /\ out' = Append(out, r.res)
    /\ UNCHANGED <<input, ufvars, dagvars, segvars, primevars>>

Inputs == UNION {[1..k -> Bytes] : k \in 0..MaxInput}

InitScan ==
    /\ \E bytes \in Inputs : NewScanner(bytes)
    /\ NewUF(1)
    /\ NewDag(1)
    /\ NewSeg(1)
    /\ NewPrime(0)

NextScan == \E ty \in {"String", "u32"} : TryScan(ty)

SpecScan == InitScan /\ [][NextScan]_vars

\* The tokens of an input: the maximal runs of bytes other than space and
\* newline, in order.
IsSep(c) == c = SP \/ c = NL
TokenStarts(inp) ==
    {i \in 1..Len(inp) : ~ IsSep(inp[i]) /\ (i = 1 \/ IsSep(inp[i - 1]))}
TokenEnd(inp, i) ==
    CHOOSE e \in i..Len(inp) :
        /\ \A k \in i..e : ~ IsSep(inp[k])
        /\ (e = Len(inp) \/ IsSep(inp[e + 1]))
NthStart(inp, n) ==
    CHOOSE i \in TokenStarts(inp) : Cardinality({k \in TokenStarts(inp) : k <= i}) = n
Token(inp, n) == SubSeq(inp, NthStart(inp, n), TokenEnd(inp, NthStart(inp, n)))
NumTokens(inp) == Cardinality(TokenStarts(inp))

\* C9: successive try_scan calls return the tokens of the input in order,
\* across lines, blank lines and with or without a final newline, and once
\* the last token has been returned every further call returns Err(Eof).
C9_TokensInOrder ==
    \A n \in 1..Len(out) :
        IF n <= NumTokens(input)
        THEN /\ out[n].part = Token(input, n)
             /\ out[n].kind \in {"Ok", "Parse"}
             /\ out[n].ty = "String" => (out[n].kind = "Ok" /\ out[n].str = Token(input, n))
        ELSE out[n].kind = "Eof"

\* C9 witness: two tokens from two lines of an input without a final
\* newline were returned, then Err(Eof) twice.
C9_Witness ==
    /\ Len(out) = 4
    /\ NumTokens(input) = 2
    /\ \E k \in 2..(Len(input) - 1) : input[k] = NL
    /\ input[Len(input)] # NL
    /\ out[1].kind = "Ok" /\ out[2].kind = "Ok"
    /\ out[3].kind = "Eof" /\ out[4].kind = "Eof"

\* C19: no try_scan call, on any input and after any earlier results (Eof
\* and parse errors among them), reads buf[pos] with pos >= buf.len(): no
\* call ends in the out-of-bounds panic, and between the calls the buffer
\* is either empty (the next call fills it or returns Err(Eof) before the
\* loop) or a line that ends in a newline with pos inside it.
C19_NoOutOfBounds ==
    /\ \A n \in 1..Len(out) : out[n].kind # "Panic"
    /\ buf # <<>> => (buf[Len(buf)] = NL /\ pos < Len(buf))

\* C19 witness: on an input with a trailing space, a blank line and no
\* final newline, a call failed to parse, and two calls came after the end
\* of the input.
C19_Witness ==
    /\ Len(out) = 4
    /\ out[1].kind = "Parse"
    /\ out[3].kind = "Eof" /\ out[4].kind = "Eof"
    /\ input # <<>>
    /\ input[Len(input)] # NL
    /\ \E k \in 1..(Len(input) - 1) : input[k] = NL /\ input[k + 1] = NL
    /\ \E k \in 1..(Len(input) - 1) : input[k] = SP /\ input[k + 1] = NL

----------------------------------------------------------------------------
(***************************************************************************)
(* calc/prime.rs                                                           *)
(***************************************************************************)
\* factorize, lines 28-32: while n > 1, push buf[n] and divide n by it.
RECURSIVE factorizeLoop(_, _, _)
factorizeLoop(b, n, fs) ==
    IF n > 1 THEN factorizeLoop(b, n \div b[n], Append(fs, b[n])) ELSE fs

\* PrimeFactorizer::factorize(n, factors)
factorize(b, n, fs) == factorizeLoop(b, n, fs)

Factorize(n) ==
    /\ Len(factors) < MaxFactors
    /\ factors' = factorize(sieve, n, factors)
    /\ pcall' = [op |-> "factorize", n |-> n]
    /\ UNCHANGED <<sieve, ufvars, dagvars, segvars, scanvars>>

InitPrime ==
    /\ \E ub \in 0..MaxUpper : NewPrime(ub)
    /\ NewUF(1)
    /\ NewDag(1)
    /\ NewSeg(1)
    /\ NewScanner(<<>>)

NextPrime == \E n \in DOMAIN sieve : Factorize(n)

SpecPrime == InitPrime /\ [][NextPrime]_vars

IsPrime(p) == p >= 2 /\ \A d \in 2..(p - 1) : p % d # 0
RECURSIVE Product(_, _)
Product(fs, k) == IF k = 0 THEN 1 ELSE fs[k] * Product(fs, k - 1)

\* C10: for 2 <= n <= upper_bound, factorize(n, factors) appends the prime
\* factors of n with multiplicity in non-decreasing order (each appended
\* value is prime, their product is n), leaves what factors held before as
\* it was, and appends nothing for n = 0 and n = 1.
C10_Factorize ==
    [][pcall'.op = "factorize" =>
        LET n == pcall'.n
            old == Len(factors)
            added == SubSeq(factors', old + 1, Len(factors'))
        IN  /\ Len(factors') >= old
            /\ SubSeq(factors', 1, old) = factors
            /\ n < 2 => added = <<>>
            /\ n >= 2 =>
                /\ \A k \in 1..Len(added) : IsPrime(added[k])
                /\ Product(added, Len(added)) = n
                /\ \A k \in 1..(Len(added) - 1) : added[k] <= added[k + 1]]_vars

\* C10 witness: factorize(12) appended 2, 2, 3 after an element that was
\* already there.
C10_Witness ==
    /\ pcall = [op |-> "factorize", n |-> 12]
    /\ Len(factors) >= 4
    /\ SubSeq(factors, Len(factors) - 2, Len(factors)) = <<2, 2, 3>>

=============================================================================
